---- MODULE Spec2Model ----
(***************************************************************************)
(* Model of soroban-address-payload-ext (src/src/lib.rs): the codec        *)
(* between a Soroban Address and its (payload type, 32-byte payload).      *)
(*                                                                         *)
(* An Address is an opaque host value.  It is modelled by the ScAddress    *)
(* it holds: the union arm, the public key type of the account arm and     *)
(* the bytes that follow the discriminants.  The host's to_xdr writes it   *)
(* as the XDR of ScVal::Address, the host's from_xdr parses that XDR.      *)
(* Byte buffers (Bytes) are sequences of numbers in 0..255.                *)
(***************************************************************************)
EXTENDS Integers, Sequences, FiniteSets

VARIABLES address, origin, op, self, xdr, ret, arg, built, host_reply, made

vars == <<address, origin, op, self, xdr, ret, arg, built, host_reply, made>>

---------------------------------------------------------------------------
(* Bounds of the model.                                                    *)

\* payloads are [i |-> (seed + step * i) % 256], seed in 0..MaxSeed
MaxSeed == 1
\* ... and step in 0..MaxStep
MaxStep == 1
\* from_payload is called with payloads of 32 - LenSlack .. 32 + LenSlack bytes
LenSlack == 1
\* discriminants this version does not know are k * 256^e, k in 1..MaxTagDigit
MaxTagDigit == 2

(* Constants of the program.                                               *)

\* the width of a payload: xdr.slice(8..40), xdr.slice(4..36)
PayloadLen == 32
\* ScVal::Address
SCV_ADDRESS == 18
\* ScAddress::Account
SC_ADDRESS_TYPE_ACCOUNT == 0
\* ScAddress::Contract
SC_ADDRESS_TYPE_CONTRACT == 1
\* PublicKey::PublicKeyTypeEd25519
PUBLIC_KEY_TYPE_ED25519 == 0

---------------------------------------------------------------------------
(* Bytes.                                                                  *)

\* a 32-bit discriminant as XDR writes it: 4 bytes, big-endian
BE32(n) ==
    << (n \div 16777216) % 256, (n \div 65536) % 256, (n \div 256) % 256, n % 256 >>

\* the number 4 big-endian bytes stand for
BE32Val(b) == ((b[1] * 256 + b[2]) * 256 + b[3]) * 256 + b[4]

Pattern(seed, step, n) == [i \in 1..n |-> (seed + step * i) % 256]

\* the 32-byte payloads of the model
Payloads == { Pattern(s, t, PayloadLen) : s \in 0..MaxSeed, t \in 0..MaxStep }

\* the payloads from_payload is called with, of the right width and not
PayloadInputs ==
    { Pattern(s, t, n) : s \in 0..MaxSeed, t \in 0..MaxStep,
                         n \in (PayloadLen - LenSlack)..(PayloadLen + LenSlack) }

\* discriminant values with one non-zero byte, in each of the 4 positions
TagValues ==
    { k * 256 * 256 * 256 : k \in 1..MaxTagDigit } \cup { k * 256 * 256 : k \in 1..MaxTagDigit }
        \cup { k * 256 : k \in 1..MaxTagDigit } \cup 1..MaxTagDigit

---------------------------------------------------------------------------
(* The type of payload contained in an Address.                            *)

AddressPayloadType == {"AccountEd25519PublicKey", "ContractHash"}

(* Option<(AddressPayloadType, Bytes)>, and the abort of the call.         *)
Some(t, b) == [kind |-> "Some", type |-> t, bytes |-> b]
None == [kind |-> "None", type |-> "-", bytes |-> <<>>]
Panic == [kind |-> "Panic", type |-> "-", bytes |-> <<>>]

---------------------------------------------------------------------------
(* Address values and the host's serialization of them.                    *)

NoAddress == [arm |-> -1, pk |-> 0, body |-> <<>>]

Account(p) == [arm |-> SC_ADDRESS_TYPE_ACCOUNT, pk |-> PUBLIC_KEY_TYPE_ED25519, body |-> p]
Contract(p) == [arm |-> SC_ADDRESS_TYPE_CONTRACT, pk |-> 0, body |-> p]

\* the addresses of the two kinds the network has today
KnownAddresses == { Account(p) : p \in Payloads } \cup { Contract(p) : p \in Payloads }

\* what follows the discriminants of an address kind of a later protocol
FutureBodies == {<<>>} \cup Payloads \cup { p \o SubSeq(p, 1, 8) : p \in Payloads }

\* addresses of kinds a later protocol may add: another ScAddress arm, or
\* an account with another public key type
FutureAddresses ==
    { [arm |-> a, pk |-> 0, body |-> b] :
        a \in TagValues \ {SC_ADDRESS_TYPE_ACCOUNT, SC_ADDRESS_TYPE_CONTRACT}, b \in FutureBodies }
    \cup
    { [arm |-> SC_ADDRESS_TYPE_ACCOUNT, pk |-> k, body |-> b] :
        k \in TagValues \ {PUBLIC_KEY_TYPE_ED25519}, b \in FutureBodies }

HostAddresses == KnownAddresses \cup FutureAddresses

\* self.to_xdr(env): ScVal discriminant, ScAddress discriminant, for an
\* account the PublicKey discriminant, then the bytes
to_xdr(a) ==
    BE32(SCV_ADDRESS) \o BE32(a.arm)
        \o (IF a.arm = SC_ADDRESS_TYPE_ACCOUNT THEN BE32(a.pk) ELSE <<>>)
        \o a.body

\* Address::from_xdr(env, &xdr): the address the buffer encodes, when it is
\* the complete encoding of an account or a contract address
from_xdr(b) ==
    IF Len(b) < 8 \/ SubSeq(b, 1, 4) # BE32(SCV_ADDRESS)
    THEN [ok |-> FALSE, addr |-> NoAddress]
    ELSE IF BE32Val(SubSeq(b, 5, 8)) = SC_ADDRESS_TYPE_ACCOUNT
    THEN IF Len(b) = 12 + PayloadLen /\ BE32Val(SubSeq(b, 9, 12)) = PUBLIC_KEY_TYPE_ED25519
         THEN [ok |-> TRUE, addr |-> Account(SubSeq(b, 13, Len(b)))]
         ELSE [ok |-> FALSE, addr |-> NoAddress]
    ELSE IF BE32Val(SubSeq(b, 5, 8)) = SC_ADDRESS_TYPE_CONTRACT
    THEN IF Len(b) = 8 + PayloadLen
         THEN [ok |-> TRUE, addr |-> Contract(SubSeq(b, 9, Len(b)))]
         ELSE [ok |-> FALSE, addr |-> NoAddress]
    ELSE [ok |-> FALSE, addr |-> NoAddress]

---------------------------------------------------------------------------
(* Bytes::slice: the bytes [lo, hi) of b; the host fails the call when the *)
(* range does not lie in the buffer.                                       *)

slice(b, lo, hi) ==
    IF lo <= hi /\ hi <= Len(b)
    THEN [ok |-> TRUE, bytes |-> SubSeq(b, lo + 1, hi)]
    ELSE [ok |-> FALSE, bytes |-> <<>>]

\* xdr.slice(4..)
skip_discriminant(b) == slice(b, 4, Len(b))

---------------------------------------------------------------------------
(* payload: Address -> Option<(AddressPayloadType, Bytes)>.                *)
(* The operators below take the buffer after the ScVal discriminant was    *)
(* skipped, the second `xdr` of the function.                              *)

\* a variant of addr_type that reads the word after the ScAddress discriminant
addr_type_next_word(x) == slice(x, 4, 8)

\* let addr_type: BytesN<4> = xdr.slice(0..4).try_into().unwrap_optimized();
addr_type(x) == slice(x, 0, 4)

\* let public_key_type: BytesN<4> = xdr.slice(4..8).try_into().unwrap_optimized();
public_key_type(x) == slice(x, 4, 8)

\* a variant of ed25519 that counts from the start of the whole buffer
ed25519_absolute(x) == slice(x, 12, 44)

\* a variant of ed25519 that forgets the PublicKey discriminant
ed25519_no_inner(x) == slice(x, 4, 36)

\* let ed25519 = xdr.slice(8..40);
ed25519(x) == slice(x, 8, 40)

\* a variant of hash with the end one byte short
hash_short(x) == slice(x, 4, 35)

\* a variant of hash that skips an inner discriminant, as an account has
hash_after_inner(x) == slice(x, 8, 40)

\* let hash = xdr.slice(4..36);
hash(x) == slice(x, 4, 36)

\* a variant of payload_of_xdr that takes every account for an Ed25519 one
payload_of_xdr_any_key(b) ==
    IF ~skip_discriminant(b).ok THEN Panic
    ELSE LET x == skip_discriminant(b).bytes IN
    IF ~addr_type(x).ok THEN Panic
    ELSE IF addr_type(x).bytes = <<0, 0, 0, 0>>
    THEN IF ed25519(x).ok
         THEN Some("AccountEd25519PublicKey", ed25519(x).bytes)
         ELSE Panic
    ELSE IF addr_type(x).bytes = <<0, 0, 0, 1>>
    THEN IF hash(x).ok
         THEN Some("ContractHash", hash(x).bytes)
         ELSE Panic
    ELSE None

\* a variant of payload_of_xdr that checks the ScVal discriminant
payload_of_xdr_checked(b) ==
    IF ~skip_discriminant(b).ok THEN Panic
    ELSE IF SubSeq(b, 1, 4) # <<0, 0, 0, 18>> THEN None
    ELSE LET x == skip_discriminant(b).bytes IN
    IF ~addr_type(x).ok THEN Panic
    ELSE IF addr_type(x).bytes = <<0, 0, 0, 0>>
    THEN IF ~public_key_type(x).ok THEN Panic
         ELSE IF public_key_type(x).bytes = <<0, 0, 0, 0>>
         THEN IF ed25519(x).ok
              THEN Some("AccountEd25519PublicKey", ed25519(x).bytes)
              ELSE Panic
         ELSE None
    ELSE IF addr_type(x).bytes = <<0, 0, 0, 1>>
    THEN IF hash(x).ok
         THEN Some("ContractHash", hash(x).bytes)
         ELSE Panic
    ELSE None

\* the body of payload, from the buffer to_xdr returned
payload_of_xdr(b) ==
    IF ~skip_discriminant(b).ok THEN Panic
    ELSE LET x == skip_discriminant(b).bytes IN
    IF ~addr_type(x).ok THEN Panic
    ELSE IF addr_type(x).bytes = <<0, 0, 0, 0>>
    THEN IF ~public_key_type(x).ok THEN Panic
         ELSE IF public_key_type(x).bytes = <<0, 0, 0, 0>>
         THEN IF ed25519(x).ok
              THEN Some("AccountEd25519PublicKey", ed25519(x).bytes)
              ELSE Panic
         ELSE None
    ELSE IF addr_type(x).bytes = <<0, 0, 0, 1>>
    THEN IF hash(x).ok
         THEN Some("ContractHash", hash(x).bytes)
         ELSE Panic
    ELSE None

payload(a) == payload_of_xdr(to_xdr(a))

---------------------------------------------------------------------------
(* from_payload: (AddressPayloadType, Bytes) -> Address.                   *)

\* a variant of header with the two headers exchanged
header_swapped(payload_type) ==
    IF payload_type = "ContractHash"
    THEN << 0, 0, 0, 18,
            0, 0, 0, 0,
            0, 0, 0, 0 >>
    ELSE << 0, 0, 0, 18,
            0, 0, 0, 1 >>

\* a variant of header whose account header lacks the PublicKey discriminant
header_no_key_type(payload_type) ==
    IF payload_type = "AccountEd25519PublicKey"
    THEN << 0, 0, 0, 18,
            0, 0, 0, 0 >>
    ELSE << 0, 0, 0, 18,
            0, 0, 0, 1 >>

\* Build XDR header based on payload type
header(payload_type) ==
    IF payload_type = "AccountEd25519PublicKey"
    THEN << 0, 0, 0, 18,
            0, 0, 0, 0,
            0, 0, 0, 0 >>
    ELSE << 0, 0, 0, 18,
            0, 0, 0, 1 >>

\* a variant of from_payload_xdr that pads the payload to a multiple of 4, as XDR pads opaque data
from_payload_xdr_padded(payload_type, p) ==
    header(payload_type) \o p \o [i \in 1..((4 - (Len(p) % 4)) % 4) |-> 0]

\* let mut xdr = Bytes::from_slice(env, header); xdr.append(payload);
from_payload_xdr(payload_type, p) == header(payload_type) \o p

\* Address::from_xdr(env, &xdr).unwrap_optimized(): the address, or the
\* abort of the call when the host returned an error
from_payload(payload_type, p) ==
    LET r == from_xdr(from_payload_xdr(payload_type, p))
    IN  IF r.ok THEN [ok |-> TRUE, addr |-> r.addr]
                ELSE [ok |-> FALSE, addr |-> NoAddress]

---------------------------------------------------------------------------
(* The state machine: a contract that is handed addresses by the host and  *)
(* calls payload and from_payload.  address is the Address value the       *)
(* contract holds and origin where it came from; the other variables       *)
(* record the last call of each function: its inputs, the buffers that     *)
(* crossed the host boundary and what it returned.                         *)

NoArg == [type |-> "-", payload |-> <<>>]
NoReply == [ok |-> FALSE, addr |-> NoAddress]

Init ==
    /\ address = NoAddress
    /\ origin = "none"
    /\ op = "init"
    /\ self = NoAddress
    /\ xdr = <<>>
    /\ ret = None
    /\ arg = NoArg
    /\ built = <<>>
    /\ host_reply = NoReply
    /\ made = NoReply

\* the host hands the contract an address (Address::from_string, an argument)
HostProvides(a) ==
    /\ address' = a
    /\ origin' = "host"
    /\ op' = "host"
    /\ self' = NoAddress
    /\ xdr' = <<>>
    /\ ret' = None
    /\ arg' = NoArg
    /\ built' = <<>>
    /\ host_reply' = NoReply
    /\ made' = NoReply

\* address.payload(&env)
Payload ==
    /\ address # NoAddress
    /\ op' = "payload"
    /\ self' = address
    /\ xdr' = to_xdr(address)
    /\ ret' = payload(address)
    /\ UNCHANGED <<address, origin, arg, built, host_reply, made>>

\* Address::from_payload(&env, payload_type, &payload)
FromPayload(payload_type, p) ==
    /\ op' = "from_payload"
    /\ arg' = [type |-> payload_type, payload |-> p]
    /\ built' = from_payload_xdr(payload_type, p)
    /\ host_reply' = from_xdr(built')
    /\ made' = from_payload(payload_type, p)
    /\ IF made'.ok
       THEN address' = made'.addr /\ origin' = "from_payload"
       ELSE UNCHANGED <<address, origin>>
    /\ UNCHANGED <<self, xdr, ret>>

Next ==
    \/ \E a \in HostAddresses : HostProvides(a)
    \/ Payload
    \/ \E t \in AddressPayloadType, p \in PayloadInputs : FromPayload(t, p)

Spec == Init /\ [][Next]_vars

---------------------------------------------------------------------------
(* Properties.                                                             *)

\* the tags of the buffer the last payload call serialized, as numbers
outer_tag == BE32Val(SubSeq(xdr, 5, 8))
inner_tag == BE32Val(SubSeq(xdr, 9, 12))

\* C1: round-trip law.  from_payload(t, p) of a 32-byte payload p gives an
\* address, and payload of that address returns Some((t, p)).
C1_RoundTrip ==
    /\ (op = "from_payload" /\ Len(arg.payload) = PayloadLen) => made.ok
    /\ (op = "payload" /\ made.ok) =>
          /\ self = made.addr
          /\ ret = Some(arg.type, arg.payload)

C1_Witness ==
    /\ op = "payload" /\ made.ok /\ origin = "from_payload"
    /\ arg.type = "AccountEd25519PublicKey"
    /\ arg.payload[1] # arg.payload[2]
    /\ ret.kind = "Some"

\* C2: inverse law.  When payload(x) returned Some((t, p)), from_payload(t, p)
\* gives an address equal to x, built from the very buffer x serializes to.
C2_Inverse ==
    (op = "from_payload" /\ ret.kind = "Some"
        /\ arg.type = ret.type /\ arg.payload = ret.bytes) =>
          /\ made.ok
          /\ made.addr = self
          /\ built = xdr
          /\ to_xdr(made.addr) = xdr

C2_Witness ==
    /\ op = "from_payload" /\ ret.kind = "Some"
    /\ arg.type = ret.type /\ arg.payload = ret.bytes
    /\ ret.type = "ContractHash"
    /\ ret.bytes[1] # ret.bytes[2]
    /\ made.addr = self

\* C3: unrecognized-tag safety.  When the outer tag of the serialized buffer
\* is neither 0 nor 1, or it is 0 and the inner tag is not 0, payload
\* returns None (and does not abort).
C3_UnrecognizedIsNone ==
    (op = "payload" /\ Len(xdr) >= 8
        /\ \/ outer_tag \notin {0, 1}
           \/ outer_tag = 0 /\ Len(xdr) >= 12 /\ inner_tag # 0) =>
          ret = None

C3_Witness ==
    /\ op = "payload" /\ Len(xdr) >= 12
    /\ outer_tag = 0 /\ inner_tag # 0
    /\ ret = None

\* C4: decode is total.  On every buffer the host serializes an address to,
\* payload returns Some or None; it never aborts.
C4_DecodeTotal ==
    op = "payload" => ret.kind \in {"Some", "None"}

C4_Witness ==
    /\ op = "payload" /\ origin = "host"
    /\ outer_tag = 0 /\ inner_tag = 0
    /\ Len(xdr) = 12 + PayloadLen
    /\ ret.kind = "Some"

\* C5: whenever payload returns Some((t, p)), p is exactly 32 bytes long.
C5_PayloadIs32Bytes ==
    ret.kind = "Some" => Len(ret.bytes) = 32

C5_Witness ==
    /\ op = "payload" /\ ret.kind = "Some" /\ ret.type = "ContractHash"
    /\ Len(ret.bytes) = 32

\* C6: encode fails only by delegation.  from_payload fails exactly when the
\* host's from_xdr rejects the buffer it built, it returns the address the
\* host returned otherwise, and on a 32-byte payload it does not fail.
C6_EncodeFailsOnlyByDelegation ==
    op = "from_payload" =>
        /\ made.ok <=> host_reply.ok
        /\ made.ok => made.addr = host_reply.addr
        /\ Len(arg.payload) = PayloadLen => made.ok

C6_Witness ==
    /\ op = "from_payload"
    /\ Len(arg.payload) = PayloadLen
    /\ arg.type = "AccountEd25519PublicKey"
    /\ made.ok /\ host_reply.ok

\* C6, the failing side: a payload that is not 32 bytes wide is rejected by
\* the host, and from_payload fails with it.
C6_FailureReached ==
    /\ op = "from_payload"
    /\ Len(arg.payload) # PayloadLen
    /\ ~made.ok /\ ~host_reply.ok

\* C7: account decode.  When both tags of the serialized buffer are 0,
\* payload returns Some((AccountEd25519PublicKey, p)) with p the bytes
\* [12, 44) of the buffer.
C7_AccountDecode ==
    (op = "payload" /\ Len(xdr) >= 12 /\ outer_tag = 0 /\ inner_tag = 0) =>
        ret = Some("AccountEd25519PublicKey", [i \in 1..32 |-> xdr[12 + i]])

C7_Witness ==
    /\ op = "payload" /\ Len(xdr) >= 12 /\ outer_tag = 0 /\ inner_tag = 0
    /\ ret.type = "AccountEd25519PublicKey"
    /\ ret.bytes[1] # ret.bytes[2]

\* C8: contract decode.  When the outer tag of the serialized buffer is 1,
\* payload returns Some((ContractHash, p)) with p the bytes [8, 40) of the
\* buffer, whatever the bytes [8, 12) are.
C8_ContractDecode ==
    (op = "payload" /\ Len(xdr) >= 8 /\ outer_tag = 1) =>
        ret = Some("ContractHash", [i \in 1..32 |-> xdr[8 + i]])

C8_Witness ==
    /\ op = "payload" /\ Len(xdr) >= 12 /\ outer_tag = 1
    /\ inner_tag # 0
    /\ ret.type = "ContractHash"

\* C9: encode layout.  The buffer from_payload hands to the host is the
\* header of the type, 12 bytes for an account and 8 for a contract,
\* followed by the payload and nothing else.
C9_EncodeLayout ==
    op = "from_payload" =>
        /\ arg.type = "AccountEd25519PublicKey" =>
              /\ Len(built) = 12 + Len(arg.payload)
              /\ SubSeq(built, 1, 12) = BE32(18) \o BE32(0) \o BE32(0)
              /\ SubSeq(built, 13, Len(built)) = arg.payload
        /\ arg.type = "ContractHash" =>
              /\ Len(built) = 8 + Len(arg.payload)
              /\ SubSeq(built, 1, 8) = BE32(18) \o BE32(1)
              /\ SubSeq(built, 9, Len(built)) = arg.payload
        /\ Len(arg.payload) = 32 =>
              Len(built) = IF arg.type = "ContractHash" THEN 40 ELSE 44

C9_Witness ==
    /\ op = "from_payload" /\ arg.type = "ContractHash"
    /\ Len(arg.payload) = 32 /\ Len(built) = 40
    /\ arg.payload[1] # arg.payload[2]

\* the values the first 4 bytes of a buffer are varied over
DiscriminantVariants == { BE32(v) : v \in TagValues \cup {0, SCV_ADDRESS} }

\* C10: decode never inspects the first 4 bytes.  A buffer that differs
\* from the serialized one in the bytes [0, 4) only decodes to the same
\* result.
C10_DiscriminantIgnored ==
    op = "payload" =>
        \A d \in DiscriminantVariants :
            payload_of_xdr(d \o SubSeq(xdr, 5, Len(xdr))) = ret

C10_Witness ==
    /\ op = "payload" /\ origin = "host"
    /\ ret.kind = "Some" /\ ret.type = "AccountEd25519PublicKey"
    /\ \E d \in DiscriminantVariants : d # SubSeq(xdr, 1, 4)

====
